---------------------------- MODULE Spec2Model ----------------------------
(***************************************************************************)
(* A model of NumericConverter (src/src/General/NumericConverter.cpp):     *)
(* Accumulate reads a numeric literal one character at a time from the     *)
(* callback NextChar and leaves lvalue * 2^twos * 5^fives; the Fits/Get    *)
(* functions read the result.                                              *)
(*                                                                         *)
(* Characters are their ASCII codes.  Unsigned 32-bit values are kept as   *)
(* little-endian sequences of base-2^16 limbs without leading zero limbs,  *)
(* so that values above 2^31 and the exact (unwrapped) results of the      *)
(* arithmetic can both be written down.                                    *)
(***************************************************************************)
EXTENDS Integers, Sequences, FiniteSets, TLC

VARIABLES
    lvalue, twos, fives, isNegative, hadDecimalPoint, hadExponent,  \* the object's fields
    acceptNegative, acceptReals, c,                                  \* Accumulate's parameters
    hadDigit, overflowed, expNegative, exponent,                     \* Accumulate's locals
    pc, result,                                                      \* where Accumulate is, what it returned
    text,                                                            \* what the characters delivered so far say
    wrapped,                                                         \* an update of lvalue lost high bits
    calls,                                                           \* calls of NextChar made by this Accumulate
    twin,                                                            \* a second converter, given the same calls
    int32,                                                           \* the last call of GetInt32
    su,                                                              \* a call of SafeStrtoul
    sd                                                               \* a call of SafeStrtod

vars == <<lvalue, twos, fives, isNegative, hadDecimalPoint, hadExponent,
          acceptNegative, acceptReals, c, hadDigit, overflowed, expNegative,
          exponent, pc, result, text, wrapped, calls, twin, int32, su, sd>>

\* the converter and what is recorded about it
converter == <<lvalue, twos, fives, isNegative, hadDecimalPoint, hadExponent,
               acceptNegative, acceptReals, c, hadDigit, overflowed, expNegative,
               exponent, pc, result, text, wrapped, calls, twin, int32>>

---------------------------------------------------------------------------
(* Bounds of the exploration *)

MaxLeadZeros == 2      \* zeros after the point and before the first non-zero digit
MaxFreeDigits == 1     \* digit strings up to this length are all explored
MaxTail == 1           \* digits explored after one of the Seeds
MaxExpDigits == 1      \* digits of the exponent
MaxPad == 1            \* blanks, and zeros before the point and the first other digit

\* Digit strings longer than MaxFreeDigits start with one of these: a short
\* one, and the values next to the thresholds of the overflow tests
\* (UINT32_MAX/10, UINT32_MAX/5, INT32_MAX, INT32_MAX + 1, UINT32_MAX,
\* UINT32_MAX + 1).
Seeds == { <<1,5>>,
           <<4,2,9,4,9,6,7,2,9>>, <<8,5,8,9,9,3,4,5,9>>,
           <<2,1,4,7,4,8,3,6,4,7>>, <<2,1,4,7,4,8,3,6,4,8>>,
           <<4,2,9,4,9,6,7,2,9,5>>, <<4,2,9,4,9,6,7,2,9,6>> }

\* The first digit after a seed is any digit; the digits after it are these.
LateDigits == {0, 9}

\* The digits an exponent is written with.
ExpDigitSet == {2}

---------------------------------------------------------------------------
(* Characters *)

SPACE == 32
TAB == 9
PLUS == 43
MINUS == 45
POINT == 46
ZERO == 48
UPPER_E == 69

\* what NextChar may deliver: the characters the code tests for, and 0, which
\* ends every literal
Chars == {0, TAB, SPACE, PLUS, MINUS, POINT, UPPER_E, 101} \cup (48..57)

isdigit(ch) == ch >= 48 /\ ch <= 57

toupper(ch) == IF ch >= 97 /\ ch <= 122 THEN ch - 32 ELSE ch

---------------------------------------------------------------------------
(* Unsigned arithmetic on limbs *)

Base == 65536

RECURSIVE BigFromInt(_)
BigFromInt(n) == IF n = 0 THEN <<>> ELSE <<n % Base>> \o BigFromInt(n \div Base)

RECURSIVE BigNorm(_)
BigNorm(b) ==
    IF b = <<>> THEN <<>>
    ELSE IF b[Len(b)] = 0 THEN BigNorm(SubSeq(b, 1, Len(b) - 1))
    ELSE b

\* b * m + a, exactly (m >= 1)
RECURSIVE BigMulAdd(_, _, _)
BigMulAdd(b, m, a) ==
    IF b = <<>> THEN BigFromInt(a)
    ELSE LET t == Head(b) * m + a
         IN  <<t % Base>> \o BigMulAdd(Tail(b), m, t \div Base)

\* b - a for a small a <= b
RECURSIVE BigSubRaw(_, _)
BigSubRaw(b, a) ==
    IF a = 0 THEN b
    ELSE IF Head(b) >= a THEN <<Head(b) - a>> \o Tail(b)
    ELSE <<Head(b) + Base - a>> \o BigSubRaw(Tail(b), 1)

BigSub(b, a) == BigNorm(BigSubRaw(b, a))

\* floor(b / d) for a small d: long division from the top limb
RECURSIVE BigDivFrom(_, _, _, _)
BigDivFrom(b, i, rem, d) ==
    IF i = 0 THEN <<>>
    ELSE LET t == rem * Base + b[i]
         IN  BigDivFrom(b, i - 1, t % d, d) \o <<t \div d>>

BigDiv(b, d) == BigNorm(BigDivFrom(b, Len(b), 0, d))

\* -1, 0, 1 as a < b, a = b, a > b
RECURSIVE BigCmpFrom(_, _, _)
BigCmpFrom(a, b, i) ==
    IF i = 0 THEN 0
    ELSE IF a[i] < b[i] THEN -1
    ELSE IF a[i] > b[i] THEN 1
    ELSE BigCmpFrom(a, b, i - 1)

BigCmp(a, b) ==
    IF Len(a) < Len(b) THEN -1
    ELSE IF Len(a) > Len(b) THEN 1
    ELSE BigCmpFrom(a, b, Len(a))

BigLeq(a, b) == BigCmp(a, b) <= 0

\* the low 32 bits of b
Trunc32(b) == BigNorm(SubSeq(b, 1, IF Len(b) < 2 THEN Len(b) ELSE 2))

UINT32_MAX == <<65535, 65535>>
INT32_MAX == <<65535, 32767>>

---------------------------------------------------------------------------
(* Accumulate, from the last statement to the first: each operator takes   *)
(* the state s and the character ch now in c, and runs the code up to the  *)
(* next call of NextChar (s.pc names the call) or to the return.           *)

\* lines 38, 149, 166, 190: the call ends and its locals with it
Return(s, ok) ==
    [s EXCEPT !.pc = "done", !.result = ok, !.c = 0, !.hadDigit = FALSE,
              !.overflowed = FALSE, !.expNegative = FALSE, !.exponent = 0]

\* as ApplyExponent, the negative branch updating twos twice and fives never
ApplyExponent_TwosTwice(s) ==
    IF s.expNegative
    THEN [s EXCEPT !.twos = (s.twos - s.exponent) - s.exponent]
    ELSE [s EXCEPT !.twos = s.twos + s.exponent, !.fives = s.fives + s.exponent]

\* lines 178-187
ApplyExponent(s) ==
    IF s.expNegative
    THEN [s EXCEPT !.twos = s.twos - s.exponent, !.fives = s.fives - s.exponent]
    ELSE [s EXCEPT !.twos = s.twos + s.exponent, !.fives = s.fives + s.exponent]

\* lines 172-190
ReadExponentDigits(s, ch) ==
    IF isdigit(ch)
    THEN [s EXCEPT !.exponent = (10 * s.exponent) + (ch - ZERO), !.pc = "expdigits"]
    ELSE Return(ApplyExponent(s), TRUE)

\* as CheckExponentDigit, without the test for a digit
CheckExponentDigit_NoTest(s, ch) ==
    ReadExponentDigits([s EXCEPT !.hadExponent = TRUE, !.exponent = 0], ch)

\* lines 164-171
CheckExponentDigit(s, ch) ==
    IF ~isdigit(ch)
    THEN Return(s, FALSE)
    ELSE ReadExponentDigits([s EXCEPT !.hadExponent = TRUE, !.exponent = 0], ch)

\* lines 158-162
CheckExponentSign(s, ch) ==
    LET t == [s EXCEPT !.expNegative = (ch = MINUS)]
    IN  IF t.expNegative \/ ch = PLUS
        THEN [t EXCEPT !.pc = "expsign"]
        ELSE CheckExponentDigit(t, ch)

\* line 153
IsExponentMarker(reals, ch) == reals /\ toupper(ch) = UPPER_E

\* lines 147-155, 190
CheckExponent(s, ch) ==
    IF ~s.hadDigit
    THEN Return(s, FALSE)
    ELSE IF IsExponentMarker(s.acceptReals, ch)
    THEN [s EXCEPT !.pc = "exp"]
    ELSE Return(s, TRUE)

\* as FitsTimes10, the digit left out of the limit
FitsTimes10_NoDigit(lv, digit) == BigLeq(lv, BigDiv(UINT32_MAX, 10))

\* lines 85-86
FitsTimes10(lv, digit) ==
    \/ BigLeq(lv, BigDiv(BigSub(UINT32_MAX, 9), 10))
    \/ BigLeq(lv, BigDiv(BigSub(UINT32_MAX, digit), 10))

\* as FitsTimes5, the digit left out of the limit
FitsTimes5_NoDigit(lv, fivesDigit) == BigLeq(lv, BigDiv(UINT32_MAX, 5))

\* line 99
FitsTimes5(lv, fivesDigit) == BigLeq(lv, BigDiv(BigSub(UINT32_MAX, fivesDigit), 5))

\* line 114
FitsTimes2(lv, twosDigit) == BigLeq(lv, BigDiv(BigSub(UINT32_MAX, twosDigit), 2))

\* lines 89, 101, 116: lvalue = (lvalue * m) + a in uint32_t; wrapped records a lost carry
Store(s, m, a) ==
    LET exact == BigMulAdd(s.lvalue, m, a)
    IN  [s EXCEPT !.lvalue = Trunc32(exact),
                  !.wrapped = s.wrapped \/ ~BigLeq(exact, UINT32_MAX)]

\* lines 89-94
TimesTen(s, digit) ==
    LET t == Store(s, 10, digit)
    IN  IF t.hadDecimalPoint
        THEN [t EXCEPT !.fives = t.fives - 1, !.twos = t.twos - 1]
        ELSE t

\* as TimesFive, the factor 2 left out not made up for
TimesFive_NoCompensation(s, fivesDigit) == Store(s, 5, fivesDigit)

\* lines 101-109
TimesFive(s, fivesDigit) ==
    LET t == Store(s, 5, fivesDigit)
    IN  IF t.hadDecimalPoint
        THEN [t EXCEPT !.fives = t.fives - 1]
        ELSE [t EXCEPT !.twos = t.twos + 1]

\* lines 116-124
TimesTwo(s, twosDigit) ==
    LET t == Store(s, 2, twosDigit)
    IN  IF t.hadDecimalPoint
        THEN [t EXCEPT !.twos = t.twos - 1]
        ELSE [t EXCEPT !.fives = t.fives + 1]

\* as BumpBoth, the exponents following the point as they do while digits fit
BumpBoth_CountsFraction(s) ==
    IF ~s.hadDecimalPoint
    THEN [s EXCEPT !.fives = s.fives + 1, !.twos = s.twos + 1]
    ELSE [s EXCEPT !.fives = s.fives - 1, !.twos = s.twos - 1]

\* lines 76-80, 126-130
BumpBoth(s) ==
    IF ~s.hadDecimalPoint
    THEN [s EXCEPT !.fives = s.fives + 1, !.twos = s.twos + 1]
    ELSE s

\* as FoldDigit, the halved digit rounded down
FoldDigit_RoundDown(s, digit) ==
    LET fivesDigit == digit \div 2
        twosDigit == (digit + 4) \div 5
        t == IF FitsTimes5(s.lvalue, fivesDigit) THEN TimesFive(s, fivesDigit)
             ELSE IF FitsTimes2(s.lvalue, twosDigit) THEN TimesTwo(s, twosDigit)
             ELSE BumpBoth(s)
    IN  [t EXCEPT !.overflowed = TRUE]

\* lines 96-133
FoldDigit(s, digit) ==
    LET fivesDigit == (digit + 1) \div 2
        twosDigit == (digit + 4) \div 5
        t == IF FitsTimes5(s.lvalue, fivesDigit) THEN TimesFive(s, fivesDigit)
             ELSE IF FitsTimes2(s.lvalue, twosDigit) THEN TimesTwo(s, twosDigit)
             ELSE BumpBoth(s)
    IN  [t EXCEPT !.overflowed = TRUE]

\* lines 73-134
AccumulateDigit(s, digit) ==
    LET t == [s EXCEPT !.hadDigit = TRUE]
    IN  IF t.overflowed THEN BumpBoth(t)
        ELSE IF FitsTimes10(t.lvalue, digit) THEN TimesTen(t, digit)
        ELSE FoldDigit(t, digit)

\* as IsNewPoint, acceptReals not looked at
IsNewPoint_AnyMode(hadPoint, reals, ch) == ch = POINT /\ ~hadPoint

\* as IsNewPoint, a point already read not looked at
IsNewPoint_Again(hadPoint, reals, ch) == ch = POINT /\ reals

\* lines 56, 136
IsNewPoint(hadPoint, reals, ch) == ch = POINT /\ ~hadPoint /\ reals

\* lines 69-145
ReadDigits(s, ch) ==
    IF isdigit(ch)
    THEN [AccumulateDigit(s, ch - ZERO) EXCEPT !.pc = "digits"]
    ELSE IF IsNewPoint(s.hadDecimalPoint, s.acceptReals, ch)
    THEN [s EXCEPT !.hadDecimalPoint = TRUE, !.pc = "digits"]
    ELSE CheckExponent(s, ch)

\* as LeadingZero, the zeros after the point not counted
LeadingZero_NotCounted(s) == [s EXCEPT !.hadDigit = TRUE]

\* lines 47-55
LeadingZero(s) ==
    LET t == [s EXCEPT !.hadDigit = TRUE]
    IN  IF t.hadDecimalPoint
        THEN [t EXCEPT !.fives = t.fives - 1, !.twos = t.twos - 1]
        ELSE t

\* lines 45-68
SkipZeros(s, ch) ==
    IF ch = ZERO
    THEN [LeadingZero(s) EXCEPT !.pc = "zeros"]
    ELSE IF IsNewPoint(s.hadDecimalPoint, s.acceptReals, ch)
    THEN [s EXCEPT !.hadDecimalPoint = TRUE, !.pc = "zeros"]
    ELSE ReadDigits([s EXCEPT !.overflowed = FALSE], ch)

\* as MinusSign, isNegative set before acceptNegative is looked at
MinusSign_SetFirst(s) ==
    IF ~s.acceptNegative
    THEN Return([s EXCEPT !.isNegative = TRUE], FALSE)
    ELSE [s EXCEPT !.isNegative = TRUE, !.pc = "sign"]

\* lines 36-41
MinusSign(s) ==
    IF ~s.acceptNegative
    THEN Return(s, FALSE)
    ELSE [s EXCEPT !.isNegative = TRUE, !.pc = "sign"]

\* lines 30-42
CheckSign(s, ch) ==
    IF ch = PLUS THEN [s EXCEPT !.pc = "sign"]
    ELSE IF ch = MINUS THEN MinusSign(s)
    ELSE SkipZeros(s, ch)

\* as SkipWhiteSpace, one blank skipped and no more
SkipWhiteSpace_Once(s, ch) ==
    IF ch = SPACE \/ ch = TAB
    THEN [s EXCEPT !.pc = "sign"]
    ELSE CheckSign(s, ch)

\* lines 24-27
SkipWhiteSpace(s, ch) ==
    IF ch = SPACE \/ ch = TAB
    THEN [s EXCEPT !.pc = "ws"]
    ELSE CheckSign(s, ch)

\* as Reset, twos and fives left as they were
Reset_KeepsScale(s) ==
    [s EXCEPT !.hadDecimalPoint = FALSE, !.hadExponent = FALSE, !.isNegative = FALSE,
              !.hadDigit = FALSE, !.lvalue = <<>>]

\* lines 18-21
Reset(s) ==
    [s EXCEPT !.hadDecimalPoint = FALSE, !.hadExponent = FALSE, !.isNegative = FALSE,
              !.hadDigit = FALSE, !.lvalue = <<>>, !.fives = 0, !.twos = 0]

---------------------------------------------------------------------------
(* The functions that read the result *)

\* b as an integer, for b < 2^31
BigToInt(b) == IF b = <<>> THEN 0 ELSE IF Len(b) = 1 THEN b[1] ELSE b[1] + Base * b[2]

\* (int32_t)b: the 32 bits of b read as two's complement
ToInt32(b) == IF BigLeq(b, INT32_MAX) THEN BigToInt(b) ELSE (b[2] - Base) * Base + b[1]

\* as FitsInInt32, the limit that of uint32_t
FitsInInt32_UnsignedLimit ==
    ~hadDecimalPoint /\ ~hadExponent /\ twos = 0 /\ fives = 0 /\ BigLeq(lvalue, UINT32_MAX)

\* lines 195-198
FitsInInt32 ==
    ~hadDecimalPoint /\ ~hadExponent /\ twos = 0 /\ fives = 0 /\ BigLeq(lvalue, INT32_MAX)

\* as FitsInUint32, twos and fives not looked at
FitsInUint32_NoScale ==
    /\ ~hadDecimalPoint /\ ~hadExponent /\ (~isNegative \/ lvalue = <<>>)
    /\ BigLeq(lvalue, UINT32_MAX)

\* lines 201-204
FitsInUint32 ==
    /\ ~hadDecimalPoint /\ ~hadExponent /\ (~isNegative \/ lvalue = <<>>)
    /\ twos = 0 /\ fives = 0 /\ BigLeq(lvalue, UINT32_MAX)

\* lines 207-210; the negation of INT32_MIN is not representable
GetInt32 == IF isNegative THEN 0 - ToInt32(lvalue) ELSE ToInt32(lvalue)

INT32_MIN == (0 - 2147483647) - 1

\* line 209: -(int32_t)lvalue is evaluated with (int32_t)lvalue = INT32_MIN
GetInt32Overflows == isNegative /\ lvalue = <<0, 32768>>

NoInt32 == [called |-> FALSE, value |-> 0, overflow |-> FALSE, trapped |-> FALSE]

\* What a call of GetInt32 does.  The signed overflow is undefined: a build
\* that negates in two's complement returns INT32_MIN, one that traps on
\* overflow does not return.
GetInt32Outcomes ==
    IF GetInt32Overflows
    THEN {[called |-> TRUE, value |-> INT32_MIN, overflow |-> TRUE, trapped |-> FALSE],
          [called |-> TRUE, value |-> 0, overflow |-> TRUE, trapped |-> TRUE]}
    ELSE {[called |-> TRUE, value |-> GetInt32, overflow |-> FALSE, trapped |-> FALSE]}

\* lines 213-216
GetUint32 == lvalue

\* lines 222-236: entry i (from 0) is 10^-(i+1); kept as the power of ten
inversePowersOfTen == <<-1, -2, -3, -4, -5, -6, -7, -8, -9, -10, -11, -12>>

\* i is an index of the array
InTable(i) == i >= 0 /\ i < Len(inversePowersOfTen)

\* inversePowersOfTen[i]; what a read outside the array yields is not
\* determined, and 0 stands for it
TableEntry(i) == IF InTable(i) THEN inversePowersOfTen[i + 1] ELSE 0

\* as UsesTable, the array taken to have one entry more
UsesTable_OneMore(tens) == tens < 0 /\ tens >= 0 - (Len(inversePowersOfTen) + 1)

\* line 247
UsesTable(tens) == tens < 0 /\ tens >= 0 - Len(inversePowersOfTen)

\* lines 240-268.  The result is (+/-) lvalue * 10^ten * extra, rounded to double
\* and then to float; the rounding is not modelled, the factors are: ten is
\* the power of ten multiplied in at line 249 or 253 (0: none), index the entry
\* of the array read (-1: none), stray that it is no entry of the array, pow
\* whether pow() was called, extra the factor of lines 258-265 (1: none).
GetFloat ==
    LET tens == IF twos < fives THEN twos ELSE fives
        table == tens # 0 /\ UsesTable(tens)
    IN  [negative |-> isNegative,
         mantissa |-> lvalue,
         table |-> table,
         index |-> IF table THEN (0 - tens) - 1 ELSE -1,
         stray |-> table /\ ~InTable((0 - tens) - 1),
         pow |-> tens # 0 /\ ~table,
         ten |-> IF tens = 0 THEN 0 ELSE IF table THEN TableEntry((0 - tens) - 1) ELSE tens,
         extra |-> IF fives > twos THEN 5 ELSE IF twos > fives THEN 2 ELSE 1]

\* as GetDigitsAfterPoint, the comparison turned round
GetDigitsAfterPoint_Larger ==
    LET digits == IF fives > twos THEN fives ELSE twos
    IN  IF digits < 0 THEN 0 - digits ELSE 0

\* lines 272-276
GetDigitsAfterPoint ==
    LET digits == IF fives < twos THEN fives ELSE twos
    IN  IF digits < 0 THEN 0 - digits ELSE 0

---------------------------------------------------------------------------
(* The literal as text: what the characters delivered so far say, read by   *)
(* the grammar [ws]* [sign] digit* ['.' digit*] [E [sign] digit+] alone,    *)
(* without reference to the converter.  part is the part of the grammar the *)
(* last character belonged to ("end": it belonged to none), sig the digits  *)
(* from the first non-zero one, frac the number of digits after the point,  *)
(* exp the digits of the exponent, minus a '-' in the sign's place, refused *)
(* that the literal ended at a point or an exponent marker only because     *)
(* reals are not accepted, again that it ended at a second point, matched   *)
(* the number of characters that belonged to a part, plus a '+' in the      *)
(* sign's place, pad the number of blanks and of zeros before the point and *)
(* the first other digit.                                                   *)

TextStart ==
    [part |-> "start", minus |-> FALSE, anyDigit |-> FALSE, sig |-> <<>>,
     point |-> FALSE, frac |-> 0, marker |-> FALSE, expMinus |-> FALSE, exp |-> <<>>,
     refused |-> FALSE, again |-> FALSE, matched |-> 0, plus |-> FALSE, pad |-> 0]

TextMantissa(t, ch, reals) ==
    IF isdigit(ch)
    THEN [t EXCEPT !.part = "mant", !.anyDigit = TRUE,
                   !.pad = IF ch = 48 /\ t.sig = <<>> /\ ~t.point THEN t.pad + 1 ELSE t.pad,
                   !.sig = IF ch = 48 /\ t.sig = <<>> THEN <<>> ELSE Append(t.sig, ch - 48),
                   !.frac = IF t.point THEN t.frac + 1 ELSE t.frac]
    ELSE IF ch = 46 /\ reals /\ ~t.point
    THEN [t EXCEPT !.part = "mant", !.point = TRUE]
    ELSE IF ch \in {69, 101} /\ reals /\ t.anyDigit
    THEN [t EXCEPT !.part = "marker", !.marker = TRUE]
    ELSE [t EXCEPT !.part = "end",
                   !.again = (ch = 46 /\ reals /\ t.point),
                   !.refused = (~reals /\ ((ch = 46 /\ ~t.point)
                                           \/ (ch \in {69, 101} /\ t.anyDigit)))]

TextPart(t, ch, neg, reals) ==
    IF t.part = "start" /\ ch \in {32, 9} THEN [t EXCEPT !.pad = t.pad + 1]
    ELSE IF t.part = "start" /\ ch = 43 THEN [t EXCEPT !.part = "sign", !.plus = TRUE]
    ELSE IF t.part = "start" /\ ch = 45
    THEN [t EXCEPT !.minus = TRUE, !.part = IF neg THEN "sign" ELSE "end"]
    ELSE IF t.part \in {"start", "sign", "mant"} THEN TextMantissa(t, ch, reals)
    ELSE IF t.part = "marker" /\ ch \in {43, 45}
    THEN [t EXCEPT !.part = "expsign", !.expMinus = (ch = 45)]
    ELSE IF t.part \in {"marker", "expsign", "exp"} /\ isdigit(ch)
    THEN [t EXCEPT !.part = "exp", !.exp = Append(t.exp, ch - 48)]
    ELSE [t EXCEPT !.part = "end"]

TextNext(t, ch, neg, reals) ==
    LET u == TextPart(t, ch, neg, reals)
    IN  IF u.part = "end" THEN u ELSE [u EXCEPT !.matched = t.matched + 1]

RECURSIVE DigitsToInt(_)
DigitsToInt(d) ==
    IF d = <<>> THEN 0 ELSE 10 * DigitsToInt(SubSeq(d, 1, Len(d) - 1)) + d[Len(d)]

RECURSIVE DigitsToBig(_)
DigitsToBig(d) ==
    IF d = <<>> THEN <<>>
    ELSE BigMulAdd(DigitsToBig(SubSeq(d, 1, Len(d) - 1)), 10, d[Len(d)])

---------------------------------------------------------------------------
(* The inputs explored *)

SigInBounds(d) ==
    \/ Len(d) <= MaxFreeDigits
    \/ \E seed \in Seeds :
          /\ Len(d) <= Len(seed) + MaxTail
          /\ \A i \in 1..Len(d) : i <= Len(seed) => d[i] = seed[i]
          /\ \A i \in 1..Len(d) : i > Len(seed) + 1 => d[i] \in LateDigits

TextInBounds(t) ==
    /\ t.pad <= MaxPad
    /\ (Len(t.sig) > MaxFreeDigits \/ t.marker) => (t.pad = 0 /\ ~t.plus)
    /\ t.sig = <<>> => t.frac <= MaxLeadZeros
    /\ SigInBounds(t.sig)
    /\ Len(t.exp) <= MaxExpDigits
    /\ \A i \in 1..Len(t.exp) : t.exp[i] \in ExpDigitSet

---------------------------------------------------------------------------
(* The state machine *)

Cur ==
    [pc |-> pc, result |-> result, wrapped |-> wrapped, c |-> c,
     lvalue |-> lvalue, twos |-> twos, fives |-> fives, isNegative |-> isNegative,
     hadDecimalPoint |-> hadDecimalPoint, hadExponent |-> hadExponent,
     acceptNegative |-> acceptNegative, acceptReals |-> acceptReals,
     hadDigit |-> hadDigit, overflowed |-> overflowed,
     expNegative |-> expNegative, exponent |-> exponent]

Install(s) ==
    /\ pc' = s.pc /\ result' = s.result /\ wrapped' = s.wrapped
    /\ lvalue' = s.lvalue /\ twos' = s.twos /\ fives' = s.fives
    /\ isNegative' = s.isNegative
    /\ hadDecimalPoint' = s.hadDecimalPoint /\ hadExponent' = s.hadExponent
    /\ acceptNegative' = s.acceptNegative /\ acceptReals' = s.acceptReals
    /\ hadDigit' = s.hadDigit /\ overflowed' = s.overflowed
    /\ expNegative' = s.expNegative /\ exponent' = s.exponent
    /\ c' = s.c
    /\ UNCHANGED <<int32, su, sd>>

\* NextChar returns ch
Fetch(ch) ==
    \E t \in {TextNext(text, ch, acceptNegative, acceptReals)} :
        /\ (isdigit(ch) \/ ch \in {SPACE, TAB} \/ toupper(ch) = UPPER_E)
              => TextInBounds(t)
        /\ text' = t
        /\ calls' = calls + 1

\* c = NextChar()
Got(ch) == [Cur EXCEPT !.c = ch]

\* c = NextChar() in the second converter
TwinGot(ch) == [twin EXCEPT !.c = ch]

\* this converter goes to s and the second one to w
Both(s, w) == Install(s) /\ twin' = w

\* the second converter before its first Accumulate: other contents
TwinStart ==
    [pc |-> "idle", result |-> FALSE, wrapped |-> FALSE, c |-> 0,
     lvalue |-> <<9, 9>>, twos |-> -4, fives |-> 6, isNegative |-> FALSE,
     hadDecimalPoint |-> TRUE, hadExponent |-> FALSE,
     acceptNegative |-> FALSE, acceptReals |-> FALSE,
     hadDigit |-> FALSE, overflowed |-> FALSE, expNegative |-> FALSE, exponent |-> 0]

\* no call of SafeStrtoul, of SafeStrtod
StrtoulIdle == [pc |-> "idle"]
StrtodIdle == [pc |-> "idle"]

\* A converter before its first Accumulate: the fields hold whatever was there.
ConverterInit(junks) ==
    /\ pc = "idle" /\ result = FALSE /\ wrapped = FALSE
    /\ \E junk \in junks :
          /\ lvalue = IF junk THEN <<7>> ELSE <<>>
          /\ twos = IF junk THEN 3 ELSE 0
          /\ fives = IF junk THEN -2 ELSE 0
          /\ isNegative = junk /\ hadDecimalPoint = junk /\ hadExponent = junk
    /\ acceptNegative = FALSE /\ acceptReals = FALSE /\ c = 0
    /\ hadDigit = FALSE /\ overflowed = FALSE /\ expNegative = FALSE /\ exponent = 0
    /\ text = TextStart /\ calls = 0
    /\ int32 = NoInt32
    /\ twin = TwinStart

Init == ConverterInit(BOOLEAN) /\ su = StrtoulIdle /\ sd = StrtodIdle

\* Accumulate(first, neg, reals, NextChar) is called: lines 16-27 and on
Begin ==
    /\ pc = "idle"
    /\ \E first \in Chars, neg \in BOOLEAN, reals \in BOOLEAN :
          /\ TextInBounds(TextNext(TextStart, first, neg, reals))
          /\ text' = TextNext(TextStart, first, neg, reals)
          /\ calls' = 0
          /\ \E s \in {SkipWhiteSpace(
                          Reset([Cur EXCEPT !.c = first, !.acceptNegative = neg,
                                            !.acceptReals = reals]),
                          first)},
                w \in {SkipWhiteSpace(
                          Reset([twin EXCEPT !.c = first, !.acceptNegative = neg,
                                             !.acceptReals = reals]),
                          first)} : Both(s, w)

\* line 26
FetchAfterBlank ==
    /\ pc = "ws"
    /\ \E ch \in Chars :
          /\ Fetch(ch)
          /\ \E s \in {SkipWhiteSpace(Got(ch), ch)},
                w \in {SkipWhiteSpace(TwinGot(ch), ch)} : Both(s, w)

\* lines 32, 41
FetchAfterSign ==
    /\ pc = "sign"
    /\ \E ch \in Chars :
          /\ Fetch(ch)
          /\ \E s \in {SkipZeros(Got(ch), ch)},
                w \in {SkipZeros(TwinGot(ch), ch)} : Both(s, w)

\* line 64
FetchAfterZero ==
    /\ pc = "zeros"
    /\ \E ch \in Chars :
          /\ Fetch(ch)
          /\ \E s \in {SkipZeros(Got(ch), ch)},
                w \in {SkipZeros(TwinGot(ch), ch)} : Both(s, w)

\* line 144
FetchAfterDigit ==
    /\ pc = "digits"
    /\ \E ch \in Chars :
          /\ Fetch(ch)
          /\ \E s \in {ReadDigits(Got(ch), ch)},
                w \in {ReadDigits(TwinGot(ch), ch)} : Both(s, w)

\* line 155
FetchAfterMarker ==
    /\ pc = "exp"
    /\ \E ch \in Chars :
          /\ Fetch(ch)
          /\ \E s \in {CheckExponentSign(Got(ch), ch)},
                w \in {CheckExponentSign(TwinGot(ch), ch)} : Both(s, w)

\* line 161
FetchAfterExpSign ==
    /\ pc = "expsign"
    /\ \E ch \in Chars :
          /\ Fetch(ch)
          /\ \E s \in {CheckExponentDigit(Got(ch), ch)},
                w \in {CheckExponentDigit(TwinGot(ch), ch)} : Both(s, w)

\* line 175
FetchAfterExpDigit ==
    /\ pc = "expdigits"
    /\ \E ch \in Chars :
          /\ Fetch(ch)
          /\ \E s \in {ReadExponentDigits(Got(ch), ch)},
                w \in {ReadExponentDigits(TwinGot(ch), ch)} : Both(s, w)

\* GetInt32() is called on the result of a successful Accumulate: lines 207-210
CallGetInt32 ==
    /\ pc = "done" /\ result
    /\ ~text.point /\ ~text.marker       \* explored after the literals that are digits only
    /\ \E r \in GetInt32Outcomes : int32' = r
    /\ UNCHANGED <<lvalue, twos, fives, isNegative, hadDecimalPoint, hadExponent,
                   acceptNegative, acceptReals, c, hadDigit, overflowed, expNegative,
                   exponent, pc, result, text, wrapped, calls, twin, su, sd>>

Next ==
    \/ Begin
    \/ FetchAfterBlank
    \/ FetchAfterSign
    \/ FetchAfterZero
    \/ FetchAfterDigit
    \/ FetchAfterMarker
    \/ FetchAfterExpSign
    \/ FetchAfterExpDigit
    \/ CallGetInt32

Spec == Init /\ [][Next]_vars

---------------------------------------------------------------------------
(* SafeStrtoul (src/src/General/SafeStrtod.cpp).  A string is the sequence  *)
(* of its characters before the terminating 0; a pointer into it is an      *)
(* index, the string's start being 1; endptr = 0 says that *endptr was not  *)
(* written.                                                                 *)

MaxStrLen == 3         \* characters of a string given to SafeStrtoul

DIGIT_5 == 53
UPPER_G == 71

\* blanks, a minus sign, a digit of every base tried, and no digit of any
StrtoulChars == {SPACE, TAB, MINUS, DIGIT_5, UPPER_G}

StrtoulBases == {10, 16}

StrtoulStrings == UNION {[1..n -> StrtoulChars] : n \in 0..MaxStrLen}

CharAt(str, i) == IF i <= Len(str) THEN str[i] ELSE 0

\* the index after the digits that start at i
RECURSIVE DigitsEnd(_, _)
DigitsEnd(str, i) == IF CharAt(str, i) = DIGIT_5 THEN DigitsEnd(str, i + 1) ELSE i

\* the value in base b of the digits from i up to j (excluded), all of them 5
RECURSIVE DigitsValue(_, _, _)
DigitsValue(b, i, j) == IF j <= i THEN 0 ELSE b * DigitsValue(b, i, j - 1) + 5

\* the library's strtoul(s, endptr, base), for a string that has at s neither
\* a blank nor a sign: the digits are converted and *endptr set after them,
\* or to s where there is none
LibStrtoul(u) ==
    LET j == DigitsEnd(u.str, u.s)
    IN  [u EXCEPT !.pc = "done", !.delegated = TRUE,
                  !.ret = DigitsValue(u.base, u.s, j),
                  !.endptr = IF u.endGiven THEN j ELSE 0]

\* SafeStrtoul(s, endptr, base) is called, in either overload
StrtoulCall ==
    /\ su.pc = "idle"
    /\ \E str \in StrtoulStrings, given \in BOOLEAN, base \in StrtoulBases,
          isConst \in BOOLEAN :
          su' = [pc |-> "skip", str |-> str, s |-> 1, endGiven |-> given, endptr |-> 0,
                 base |-> base, isConst |-> isConst, ret |-> 0, delegated |-> FALSE]
    /\ UNCHANGED <<converter, sd>>

\* lines 143-146, 161-164
StrtoulSkip ==
    /\ su.pc = "skip"
    /\ CharAt(su.str, su.s) \in {SPACE, TAB}
    /\ su' = [su EXCEPT !.s = su.s + 1]
    /\ UNCHANGED <<converter, sd>>

\* lines 147-154, 165-172
StrtoulMinus ==
    /\ su.pc = "skip"
    /\ CharAt(su.str, su.s) = MINUS
    /\ su' = [su EXCEPT !.endptr = IF su.endGiven THEN su.s ELSE 0,
                         !.ret = 0, !.pc = "done"]
    /\ UNCHANGED <<converter, sd>>

\* lines 155, 173
StrtoulDelegate ==
    /\ su.pc = "skip"
    /\ CharAt(su.str, su.s) \notin {SPACE, TAB, MINUS}
    /\ su' = LibStrtoul(su)
    /\ UNCHANGED <<converter, sd>>

StrtoulNext ==
    \/ StrtoulCall
    \/ StrtoulSkip
    \/ StrtoulMinus
    \/ StrtoulDelegate

StrtoulInit == ConverterInit({FALSE}) /\ su = StrtoulIdle /\ sd = StrtodIdle

SpecStrtoul == StrtoulInit /\ [][StrtoulNext]_vars

---------------------------------------------------------------------------
(* SafeStrtod (src/src/General/SafeStrtod.cpp).  The string is read from    *)
(* left to right and never back, so it is given by the character at s, cur, *)
(* and chosen as s moves; pos is s less the start of the string; end = -1   *)
(* says that *p was not written.  unsigned long has 32 bits on the targets  *)
(* of the library and 64 on others: max is ULONG_MAX of the build.  frac,   *)
(* the digits read after the point, and wrapped are kept beside the         *)
(* function's own variables.                                                *)

MaxIntDigits == 1      \* digits before the point

\* the digits before the point
IntDigitSet == {0, 7}

UINT64_MAX == <<65535, 65535, 65535, 65535>>

\* ULONG_MAX / 10 and ULONG_MAX where unsigned long has 64 bits
Seeds64 == { <<1,8,4,4,6,7,4,4,0,7,3,7,0,9,5,5,1,6,1>>,
             <<1,8,4,4,6,7,4,4,0,7,3,7,0,9,5,5,1,6,1,5>> }

\* d without its leading zeros
RECURSIVE StripZeros(_)
StripZeros(d) == IF d # <<>> /\ Head(d) = 0 THEN StripZeros(Tail(d)) ELSE d

\* the digits after the point that are explored
FracInBounds(d) ==
    LET sig == StripZeros(d)
    IN  /\ Len(d) - Len(sig) <= MaxLeadZeros
        /\ \/ Len(sig) <= MaxFreeDigits
           \/ \E seed \in Seeds \cup Seeds64 :
                 /\ Len(sig) <= Len(seed) + MaxTail
                 /\ \A i \in 1..Len(sig) : i <= Len(seed) => sig[i] = seed[i]
                 /\ \A i \in 1..Len(sig) : i > Len(seed) + 1 => sig[i] \in LateDigits

\* the low bits of b that an unsigned long of the build holds
TruncUlong(b, max) == BigNorm(SubSeq(b, 1, IF Len(b) < Len(max) THEN Len(b) ELSE Len(max)))

\* ++s
Advance(u, nx) == [u EXCEPT !.cur = nx, !.pos = u.pos + 1]

\* The strings explored, by the character now at s: a blank within MaxPad, a
\* digit before the point within MaxIntDigits, one after it by FracInBounds
\* (and a long run of them only where the string starts with the point), one
\* of the exponent within MaxExpDigits, an exponent marker no further on
\* than after a number like "7.5".
StrtodInBounds(u) ==
    /\ (u.pc \in {"white", "whole", "frac"} /\ toupper(u.cur) = UPPER_E) =>
          u.pos <= MaxIntDigits + MaxFreeDigits + 1
    /\ (u.pc = "white" /\ u.cur \in {SPACE, TAB}) => u.pos < MaxPad
    /\ (u.pc \in {"white", "whole"} /\ isdigit(u.cur)) =>
          (u.intCount < MaxIntDigits /\ (u.cur - ZERO) \in IntDigitSet)
    /\ (u.pc = "frac" /\ isdigit(u.cur)) =>
          /\ FracInBounds(Append(u.frac, u.cur - ZERO))
          /\ Len(StripZeros(Append(u.frac, u.cur - ZERO))) > MaxFreeDigits
                => u.pos = Len(u.frac) + 1
    /\ (u.pc \in {"expsign", "expdigits"} /\ isdigit(u.cur)) =>
          (u.expCount < MaxExpDigits /\ (u.cur - ZERO) \in ExpDigitSet)

\* the strings that go on from u with one character more
Moves(u) == {v \in {Advance(u, nx) : nx \in Chars} : StrtodInBounds(v)}

\* as StrtodFits, the digit left out of the limit
StrtodFits_NoDigit(v, digit, max) == BigLeq(v, BigDiv(max, 10))

\* line 63
StrtodFits(v, digit, max) == BigLeq(v, BigDiv(BigSub(max, digit), 10))

\* lines 60-76
FractionDigit(u, digit) ==
    IF u.overflowed THEN u
    ELSE IF StrtodFits(u.valueAfterPoint, digit, u.max)
    THEN LET exact == BigMulAdd(u.valueAfterPoint, 10, digit)
         IN  [u EXCEPT !.valueAfterPoint = TruncUlong(exact, u.max),
                       !.wrapped = u.wrapped \/ ~BigLeq(exact, u.max),
                       !.digitsAfterPoint = u.digitsAfterPoint + 1]
    ELSE IF digit >= 5 /\ u.valueAfterPoint # u.max
    THEN [u EXCEPT !.overflowed = TRUE,
                   !.valueAfterPoint = BigMulAdd(u.valueAfterPoint, 1, 1)]
    ELSE [u EXCEPT !.overflowed = TRUE]

\* lines 108-123: which of the three expressions is evaluated, and on what;
\* TimesPowerOf10 multiplies its first argument by ten to the second
CompositeValue(u) ==
    IF u.valueAfterPoint # <<>>
    THEN IF u.valueBeforePoint = 0
         THEN [form |-> "fraction", after |-> u.valueAfterPoint, before |-> 0,
               afterTen |-> u.exponent - u.digitsAfterPoint, ten |-> 0]
         ELSE [form |-> "both", after |-> u.valueAfterPoint, before |-> u.valueBeforePoint,
               afterTen |-> 0 - u.digitsAfterPoint, ten |-> u.exponent]
    ELSE [form |-> "whole", after |-> <<>>, before |-> u.valueBeforePoint,
          afterTen |-> 0, ten |-> u.exponent]

\* SafeStrtod(s, p) is called
StrtodCall ==
    /\ sd.pc = "idle"
    /\ \E first \in Chars, given \in BOOLEAN, max \in {UINT32_MAX, UINT64_MAX} :
          sd' = [pc |-> "white", cur |-> first, pos |-> 0, max |-> max,
                 negative |-> FALSE, valueBeforePoint |-> 0, intCount |-> 0,
                 valueAfterPoint |-> <<>>, digitsAfterPoint |-> 0, overflowed |-> FALSE,
                 exponent |-> 0, expNegative |-> FALSE, expCount |-> 0,
                 endGiven |-> given, end |-> -1, retvalue |-> CompositeValue(
                     [valueAfterPoint |-> <<>>, valueBeforePoint |-> 0, exponent |-> 0]),
                 frac |-> <<>>, wrapped |-> FALSE]
    /\ StrtodInBounds(sd')
    /\ UNCHANGED <<converter, su>>

\* lines 29-32
StrtodWhite ==
    /\ sd.pc = "white"
    /\ IF sd.cur = SPACE \/ sd.cur = TAB
       THEN sd' \in Moves(sd)
       ELSE sd' = [sd EXCEPT !.pc = "sign"]
    /\ UNCHANGED <<converter, su>>

\* lines 35-39
StrtodSign ==
    /\ sd.pc = "sign"
    /\ IF sd.cur = MINUS \/ sd.cur = PLUS
       THEN sd' \in Moves([sd EXCEPT !.negative = (sd.cur = MINUS), !.pc = "whole"])
       ELSE sd' = [sd EXCEPT !.negative = FALSE, !.pc = "whole"]
    /\ UNCHANGED <<converter, su>>

\* lines 42-47; the double holds the few digits explored exactly
StrtodWhole ==
    /\ sd.pc = "whole"
    /\ IF isdigit(sd.cur)
       THEN sd' \in Moves([sd EXCEPT
                            !.valueBeforePoint = (sd.valueBeforePoint * 10) + (sd.cur - ZERO),
                            !.intCount = sd.intCount + 1])
       ELSE sd' = [sd EXCEPT !.pc = "point"]
    /\ UNCHANGED <<converter, su>>

\* lines 50-57
StrtodPoint ==
    /\ sd.pc = "point"
    /\ IF sd.cur = POINT
       THEN sd' \in Moves([sd EXCEPT !.overflowed = FALSE, !.pc = "frac"])
       ELSE sd' = [sd EXCEPT !.pc = "exp"]
    /\ UNCHANGED <<converter, su>>

\* lines 58-78
StrtodFrac ==
    /\ sd.pc = "frac"
    /\ IF isdigit(sd.cur)
       THEN sd' \in Moves([FractionDigit(sd, sd.cur - ZERO) EXCEPT
                                !.frac = Append(sd.frac, sd.cur - ZERO)])
       ELSE sd' = [sd EXCEPT !.pc = "exp"]
    /\ UNCHANGED <<converter, su>>

\* lines 82-85
StrtodExp ==
    /\ sd.pc = "exp"
    /\ IF toupper(sd.cur) = UPPER_E
       THEN sd' \in Moves([sd EXCEPT !.pc = "expsign"])
       ELSE sd' = [sd EXCEPT !.pc = "value"]
    /\ UNCHANGED <<converter, su>>

\* lines 88-92
StrtodExpSign ==
    /\ sd.pc = "expsign"
    /\ IF sd.cur = MINUS \/ sd.cur = PLUS
       THEN sd' \in Moves([sd EXCEPT !.expNegative = (sd.cur = MINUS), !.pc = "expdigits"])
       ELSE sd' = [sd EXCEPT !.expNegative = FALSE, !.pc = "expdigits"]
    /\ UNCHANGED <<converter, su>>

\* lines 95-104
StrtodExpDigit ==
    /\ sd.pc = "expdigits"
    /\ IF isdigit(sd.cur)
       THEN sd' \in Moves([sd EXCEPT
                            !.exponent = (10 * sd.exponent) + (sd.cur - ZERO),
                            !.expCount = sd.expCount + 1])
       ELSE sd' = [sd EXCEPT !.exponent = IF sd.expNegative THEN 0 - sd.exponent
                                                            ELSE sd.exponent,
                             !.pc = "value"]
    /\ UNCHANGED <<converter, su>>

\* lines 107-132
StrtodValue ==
    /\ sd.pc = "value"
    /\ sd' = [sd EXCEPT !.retvalue = CompositeValue(sd),
                         !.end = IF sd.endGiven THEN sd.pos ELSE -1,
                         !.pc = "done"]
    /\ UNCHANGED <<converter, su>>

StrtodNext ==
    \/ StrtodCall
    \/ StrtodWhite
    \/ StrtodSign
    \/ StrtodWhole
    \/ StrtodPoint
    \/ StrtodFrac
    \/ StrtodExp
    \/ StrtodExpSign
    \/ StrtodExpDigit
    \/ StrtodValue

StrtodInit == ConverterInit({FALSE}) /\ su = StrtoulIdle /\ sd = StrtodIdle

SpecStrtod == StrtodInit /\ [][StrtodNext]_vars

---------------------------------------------------------------------------
(* The value of the literal and the value the converter holds *)

RECURSIVE BigTimesPow(_, _, _)
BigTimesPow(b, m, k) == IF k <= 0 THEN b ELSE BigTimesPow(BigMulAdd(b, m, 0), m, k - 1)

\* -1, 0, 1 as a * 2^a2 * 5^a5 is below, equal to, above b * 2^b2 * 5^b5
CmpScaled(a, a2, a5, b, b2, b5) ==
    BigCmp(BigTimesPow(BigTimesPow(a, 2, a2 - b2), 5, a5 - b5),
           BigTimesPow(BigTimesPow(b, 2, b2 - a2), 5, b5 - a5))

\* the literal's magnitude is TextMant * 10^TextScale
TextMant == DigitsToBig(text.sig)
TextScale ==
    (IF text.expMinus THEN 0 - DigitsToInt(text.exp) ELSE DigitsToInt(text.exp)) - text.frac

\* lvalue * 2^twos * 5^fives against the literal's magnitude
HeldVsText == CmpScaled(lvalue, twos, fives, TextMant, TextScale, TextScale)

\* every step mantissa * 10 + digit of the digits d fits in 32 bits
Fits32(d) == BigLeq(DigitsToBig(d), UINT32_MAX)

Accepted == pc = "done" /\ result

---------------------------------------------------------------------------
(* C1: a literal that Accumulate accepts and whose digits never reach the   *)
(* overflow branch is held exactly: lvalue * 2^twos * 5^fives is its        *)
(* magnitude, and isNegative holds iff a leading '-' was read.              *)
C1_ExactValue ==
    (Accepted /\ Fits32(text.sig)) => (HeldVsText = 0 /\ (isNegative <=> text.minus))

\* "1.5e-2" is held as 15 * 10^-3
C1_Witness ==
    /\ Accepted /\ text.sig = <<1, 5>> /\ text.frac = 1 /\ text.expMinus /\ text.exp = <<2>>
    /\ lvalue = <<15>> /\ twos = -3 /\ fives = -3 /\ ~isNegative

(* C2: lvalue stays within 0..2^32-1 and no update of it is performed when  *)
(* its exact result would exceed 2^32-1.                                    *)
C2_NoWrap == ~wrapped /\ BigLeq(lvalue, UINT32_MAX)

\* "4294967296": the tenth digit does not fit and is folded in by 5
C2_Witness ==
    /\ pc = "digits" /\ overflowed /\ text.sig = <<4,2,9,4,9,6,7,2,9,6>>
    /\ lvalue = <<0, 32768>> /\ ~wrapped

(* C3: during Accumulate and after it, with the exponent applied, twos and  *)
(* fives differ by at most 1.                                               *)
C3_ExponentsClose == pc # "idle" => (twos - fives) \in {-1, 0, 1}

\* a fold by 5 after the point and then a negative exponent
C3_Witness ==
    /\ Accepted /\ hadExponent /\ text.expMinus /\ text.exp = <<2>> /\ text.frac > 0
    /\ ~Fits32(text.sig) /\ twos - fives = 1

(* C4, as claimed: after every digit of the mantissa, lvalue * 2^twos *     *)
(* 5^fives is at least the value of the digits read so far.                 *)
C4_UpperBound_Claimed == pc \in {"zeros", "digits"} => HeldVsText >= 0

\* the digit just read is the first one that did not fit
AtFirstOverflow ==
    /\ ~Fits32(text.sig)
    /\ Fits32(SubSeq(text.sig, 1, Len(text.sig) - 1))

(* C4, amended: the value held is exact while the digits fit, and at least  *)
(* the value of the digits read so far once the first digit that does not   *)
(* fit has been folded in by 5 or by 2 (which leaves twos # fives) and no   *)
(* digit has been read after it.                                            *)
C4_UpperBoundAtFold ==
    pc \in {"zeros", "digits"} =>
        /\ Fits32(text.sig) => HeldVsText = 0
        /\ (AtFirstOverflow /\ twos # fives) => HeldVsText >= 0

\* "4294967297": 429496729 * 5 + 4, twice that is one more than the digits
C4_Witness ==
    /\ pc = "digits" /\ AtFirstOverflow /\ twos # fives
    /\ text.sig = <<4,2,9,4,9,6,7,2,9,7>> /\ HeldVsText = 1

(* C5: with both flags on, Accumulate fails on an input without a digit and *)
(* on an exponent marker (and sign) not followed by a digit, and accepts    *)
(* zeros alone, with or without a point, as lvalue = 0.                     *)
C5_DigitsRequired ==
    (pc = "done" /\ acceptNegative /\ acceptReals) =>
        /\ ~text.anyDigit => ~result
        /\ (text.marker /\ text.exp = <<>>) => ~result
        /\ (text.anyDigit /\ text.sig = <<>> /\ ~text.marker) => (result /\ lvalue = <<>>)

\* "." alone
C5_Witness ==
    /\ pc = "done" /\ acceptNegative /\ acceptReals
    /\ text.point /\ ~text.anyDigit /\ ~text.minus /\ ~result

(* C6: for an accepted literal that is digits only (no point, no exponent)  *)
(* of magnitude v, FitsInUint32 holds iff v <= 4294967295 and the literal   *)
(* is not negative or v = 0, and then GetUint32 is v.                       *)
C6_FitsInUint32 ==
    (Accepted /\ ~text.point /\ ~text.marker) =>
        /\ FitsInUint32 <=> (Fits32(text.sig) /\ (~text.minus \/ text.sig = <<>>))
        /\ FitsInUint32 => GetUint32 = TextMant

\* "4294967295"
C6_Witness ==
    /\ Accepted /\ text.sig = <<4,2,9,4,9,6,7,2,9,5>> /\ ~text.point /\ ~text.marker
    /\ FitsInUint32 /\ GetUint32 = UINT32_MAX

\* the literal's value as an integer, for a magnitude below 2^31
TextInt == IF text.minus THEN 0 - BigToInt(TextMant) ELSE BigToInt(TextMant)

(* C7: after a successful Accumulate, FitsInInt32 holds iff no point and no *)
(* exponent was read, twos = 0, fives = 0 and lvalue <= 2147483647; so      *)
(* -2147483648 and every literal with a point or an exponent do not fit;    *)
(* when it holds, GetInt32 is the literal's signed value.                   *)
C7_FitsInInt32 ==
    Accepted =>
        /\ FitsInInt32 <=> /\ ~text.point /\ text.exp = <<>>
                           /\ twos = 0 /\ fives = 0 /\ BigLeq(lvalue, INT32_MAX)
        /\ (text.minus /\ text.sig = <<2,1,4,7,4,8,3,6,4,8>>) => ~FitsInInt32
        /\ (text.point \/ text.marker) => ~FitsInInt32
        /\ FitsInInt32 => (BigLeq(TextMant, INT32_MAX) /\ GetInt32 = TextInt)

\* "-2147483647"
C7_Witness ==
    /\ Accepted /\ text.minus /\ text.sig = <<2,1,4,7,4,8,3,6,4,7>>
    /\ FitsInInt32 /\ GetInt32 = 0 - 2147483647

(* C8, as claimed: Accumulate fails whenever the input has a '-' with       *)
(* acceptNegative off, or a point or an exponent marker with acceptReals    *)
(* off.                                                                     *)
C8_DisabledFeatureFails_Claimed ==
    (pc = "done" /\ ((text.minus /\ ~acceptNegative) \/ text.refused)) => ~result

(* C8, amended: a '-' with acceptNegative off makes Accumulate fail; a      *)
(* point or an exponent marker met with acceptReals off ends the literal    *)
(* there, neither being recorded, and Accumulate succeeds iff a digit was   *)
(* read before it, with the value of those digits.                          *)
C8_DisabledFeatureEnds ==
    /\ (text.minus /\ ~acceptNegative) => (pc = "done" /\ ~result)
    /\ text.refused =>
          /\ pc = "done" /\ ~hadDecimalPoint /\ ~hadExponent
          /\ result <=> text.anyDigit
          /\ (result /\ Fits32(text.sig)) => (lvalue = TextMant /\ twos = 0 /\ fives = 0)

\* "1." or "1e" with acceptReals off: accepted as 1
C8_Witness ==
    /\ pc = "done" /\ ~acceptReals /\ text.refused /\ text.sig = <<1>>
    /\ result /\ lvalue = <<1>>

(* C9: with acceptNegative off, a '-' in the sign's place ends the call at  *)
(* once: it has returned false, no further character is fetched, and every  *)
(* field is as reset; with acceptNegative on, isNegative is set and the     *)
(* next character is fetched.                                               *)
C9_MinusRefused ==
    /\ (text.minus /\ ~acceptNegative) =>
          /\ pc = "done" /\ ~result /\ text.part = "end"
          /\ ~isNegative /\ lvalue = <<>> /\ twos = 0 /\ fives = 0
          /\ ~hadDecimalPoint /\ ~hadExponent
    /\ (text.minus /\ acceptNegative) =>
          /\ isNegative
          /\ text.part = "sign" => pc = "sign"

\* "-" refused
C9_Witness ==
    /\ pc = "done" /\ text.minus /\ ~acceptNegative /\ ~result /\ ~isNegative

Abs(n) == IF n < 0 THEN 0 - n ELSE n

(* C10, as claimed: GetDigitsAfterPoint is the negation of whichever of     *)
(* twos and fives has the smaller magnitude, 0 when that one is positive.   *)
C10_SmallerMagnitude_Claimed ==
    Accepted =>
        GetDigitsAfterPoint =
            (LET e == IF Abs(twos) <= Abs(fives) THEN twos ELSE fives
             IN  IF e < 0 THEN 0 - e ELSE 0)

(* C10, amended: GetDigitsAfterPoint is the negation of the lesser of twos  *)
(* and fives (of the larger magnitude when they are negative), 0 when that  *)
(* one is not negative: twos = -3 and fives = -4 give 4.                    *)
C10_MoreNegative ==
    Accepted =>
        /\ GetDigitsAfterPoint >= 0
        /\ GetDigitsAfterPoint >= 0 - twos /\ GetDigitsAfterPoint >= 0 - fives
        /\ GetDigitsAfterPoint \in {0, 0 - twos, 0 - fives}

\* "429496.7296": the fold by 5 after the point
C10_Witness ==
    /\ Accepted /\ twos = -3 /\ fives = -4 /\ text.sig = <<4,2,9,4,9,6,7,2,9,6>>
    /\ text.frac = 4 /\ GetDigitsAfterPoint = 4

(* C12: what Accumulate returns and leaves in lvalue, twos, fives,           *)
(* isNegative, hadDecimalPoint and hadExponent does not depend on what the  *)
(* converter held before the call: two converters that held different       *)
(* contents and are given the same arguments and characters are in the same *)
(* state from the call on, whether it succeeds or fails.                    *)
C12_PriorStateForgotten ==
    pc # "idle" =>
        /\ twin.pc = pc /\ twin.result = result
        /\ twin.lvalue = lvalue /\ twin.twos = twos /\ twin.fives = fives
        /\ twin.isNegative = isNegative
        /\ twin.hadDecimalPoint = hadDecimalPoint /\ twin.hadExponent = hadExponent

\* "1e" and a character that is no digit: the failure after the marker
C12_Witness ==
    /\ pc = "done" /\ ~result /\ text.marker /\ text.exp = <<>> /\ twin.pc = "done"
    /\ lvalue = <<1>> /\ twin.lvalue = <<1>> /\ twos = 0 /\ twin.twos = 0

\* the first character of s after its leading blanks
RECURSIVE FirstNonBlank(_, _)
FirstNonBlank(str, i) ==
    IF CharAt(str, i) \in {SPACE, TAB} THEN FirstNonBlank(str, i + 1) ELSE CharAt(str, i)

(* C13, as claimed: for a string whose first character after its leading    *)
(* blanks is '-', SafeStrtoul returns 0 without calling strtoul, and        *)
(* *endptr is the start of the string when endptr is given and nothing is   *)
(* written when it is not.                                                  *)
C13_MinusReportsStart_Claimed ==
    (su.pc = "done" /\ FirstNonBlank(su.str, 1) = MINUS) =>
        /\ su.ret = 0 /\ ~su.delegated
        /\ su.endptr = IF su.endGiven THEN 1 ELSE 0

\* a significant digit is read in this step; it is LastDigit'
DigitRead == text'.part = "mant" /\ Len(text'.sig) = Len(text.sig) + 1

LastDigit == text.sig[Len(text.sig)]

(* C14: at the first significant digit d with lvalue * 10 + d above 2^32-1, *)
(* lvalue becomes lvalue * 5 + ceil(d/2) if that is at most 2^32-1, with    *)
(* twos + 1 before the point and fives - 1 after it; else lvalue * 2 +      *)
(* ceil(d/5) if that is at most 2^32-1, with fives + 1 before the point and *)
(* twos - 1 after it; else lvalue stays and both exponents go up by 1       *)
(* before the point and stay after it.  No other field changes.             *)
C14_FoldOutcome ==
    [][ (/\ DigitRead /\ Fits32(text.sig)
         /\ ~BigLeq(BigMulAdd(lvalue, 10, LastDigit'), UINT32_MAX))
        => LET d == LastDigit'
               by5 == BigMulAdd(lvalue, 5, (d + 1) \div 2)
               by2 == BigMulAdd(lvalue, 2, (d + 4) \div 5)
               before == IF hadDecimalPoint THEN 0 ELSE 1
               after == IF hadDecimalPoint THEN 1 ELSE 0
           IN  /\ IF BigLeq(by5, UINT32_MAX)
                  THEN lvalue' = by5 /\ twos' = twos + before /\ fives' = fives - after
                  ELSE IF BigLeq(by2, UINT32_MAX)
                  THEN lvalue' = by2 /\ fives' = fives + before /\ twos' = twos - after
                  ELSE lvalue' = lvalue /\ twos' = twos + before /\ fives' = fives + before
               /\ isNegative' = isNegative /\ hadDecimalPoint' = hadDecimalPoint
               /\ hadExponent' = hadExponent
      ]_vars

\* "21474836473": 2147483647 * 2 + 1, and a factor 5 owed
C14_Witness ==
    /\ pc = "digits" /\ AtFirstOverflow /\ text.sig = <<2,1,4,7,4,8,3,6,4,7,3>>
    /\ lvalue = UINT32_MAX /\ fives = 1 /\ twos = 0 /\ ~hadDecimalPoint

(* C15: once the first digit that does not fit has been handled, the call   *)
(* stays in overflow mode and lvalue does not change again; each later      *)
(* digit before the point adds 1 to twos and to fives, each later digit     *)
(* after the point changes neither; the exponent moves both equally.        *)
C15_OverflowIsFinal ==
    [][ (pc \notin {"idle", "done"} /\ ~Fits32(text.sig))
        => /\ overflowed /\ (pc' # "done" => overflowed')
           /\ lvalue' = lvalue
           /\ twos' - twos = fives' - fives
           /\ DigitRead => twos' = twos + (IF hadDecimalPoint THEN 0 ELSE 1)
           /\ (pc' \in {"digits", "exp", "expsign"}) => (DigitRead \/ twos' = twos)
      ]_vars

\* "42949672969": a digit before the point, read in overflow mode
C15_Witness ==
    /\ pc = "digits" /\ overflowed /\ text.sig = <<4,2,9,4,9,6,7,2,9,6,9>>
    /\ ~hadDecimalPoint /\ lvalue = <<0, 32768>> /\ twos = 2 /\ fives = 1

\* min(twos, fives)
MinExponent == IF twos <= fives THEN twos ELSE fives

(* C16: after a successful Accumulate the factor GetFloat applies to the    *)
(* mantissa, 10^min(twos,fives) and then 5 if fives > twos or 2 if twos >   *)
(* fives, is 2^twos * 5^fives; the table is read iff min(twos,fives) is in  *)
(* -12..-1, at index -min(twos,fives)-1, which is in 0..11; pow is called   *)
(* for every other value but 0.                                             *)
C16_GetFloatScale ==
    Accepted =>
        LET g == GetFloat
        IN  /\ ~g.stray
            /\ g.ten + (IF g.extra = 2 THEN 1 ELSE 0) = twos
            /\ g.ten + (IF g.extra = 5 THEN 1 ELSE 0) = fives
            /\ g.table <=> MinExponent \in (-12)..(-1)
            /\ g.table => (g.index = (0 - MinExponent) - 1 /\ g.index \in 0..11)
            /\ g.pow <=> (MinExponent # 0 /\ MinExponent \notin (-12)..(-1))

\* ".004294967295": twelve digits after the point, the last entry of the table
C16_Witness ==
    /\ Accepted /\ twos = -12 /\ fives = -12 /\ text.sig = <<4,2,9,4,9,6,7,2,9,5>>
    /\ GetFloat.table /\ GetFloat.index = 11 /\ GetFloat.ten = -12

\* ".04294967295e-2": one place beyond the table
C16_WitnessPow ==
    /\ Accepted /\ twos = -13 /\ fives = -13 /\ GetFloat.pow /\ GetFloat.ten = -13

\* a - b limb by limb, for a >= b
RECURSIVE BigMinusRaw(_, _, _)
BigMinusRaw(a, b, borrow) ==
    IF a = <<>> THEN <<>>
    ELSE LET low == Head(a) - (IF b = <<>> THEN 0 ELSE Head(b)) - borrow
         IN  <<IF low < 0 THEN low + Base ELSE low>>
             \o BigMinusRaw(Tail(a), IF b = <<>> THEN <<>> ELSE Tail(b),
                            IF low < 0 THEN 1 ELSE 0)

\* |a - b|
BigAbsDiff(a, b) ==
    IF BigLeq(b, a) THEN BigNorm(BigMinusRaw(a, b, 0)) ELSE BigNorm(BigMinusRaw(b, a, 0))

\* the value held and the literal's magnitude as integers, both times the
\* same power of 2 and of 5
HeldScaled ==
    LET m2 == IF twos < TextScale THEN twos ELSE TextScale
        m5 == IF fives < TextScale THEN fives ELSE TextScale
    IN  BigTimesPow(BigTimesPow(lvalue, 2, twos - m2), 5, fives - m5)

TextScaled ==
    LET m2 == IF twos < TextScale THEN twos ELSE TextScale
        m5 == IF fives < TextScale THEN fives ELSE TextScale
    IN  BigTimesPow(BigTimesPow(TextMant, 2, TextScale - m2), 5, TextScale - m5)

(* C17: for an accepted literal in which a digit did not fit, the value     *)
(* held, lvalue * 2^twos * 5^fives, differs from the literal's magnitude T  *)
(* by less than T * 10^-9.                                                  *)
C17_RelativeError ==
    (Accepted /\ ~Fits32(text.sig)) =>
        BigCmp(BigTimesPow(BigAbsDiff(HeldScaled, TextScaled), 10, 9), TextScaled) < 0

\* "8589934591": held as (858993459 * 2 + 1) * 5, 4 above the literal
C17_Witness ==
    /\ Accepted /\ text.sig = <<8,5,8,9,9,3,4,5,9,1>> /\ lvalue = <<26215, 26214>>
    /\ ~text.point /\ ~text.marker /\ BigAbsDiff(HeldScaled, TextScaled) = <<4>>

(* C18: within one Accumulate at most one '.' is accepted, among the        *)
(* leading zeros or among the digits: hadDecimalPoint, once true, stays     *)
(* true, and it is true iff the text had a point where reals are accepted;  *)
(* a second '.' ends the literal there, which is accepted iff it had a      *)
(* digit, with the value of the text before that '.'.                       *)
C18_OnePoint ==
    /\ [][(pc # "idle" /\ hadDecimalPoint) => hadDecimalPoint']_vars
    /\ [](pc # "idle" =>
            /\ hadDecimalPoint <=> text.point
            /\ text.again =>
                  /\ pc = "done" /\ ~hadExponent
                  /\ result <=> text.anyDigit
                  /\ (result /\ Fits32(text.sig)) => HeldVsText = 0)

\* "1.5." is accepted as 15 * 10^-1
C18_Witness ==
    /\ Accepted /\ text.again /\ text.sig = <<1, 5>> /\ text.frac = 1
    /\ lvalue = <<15>> /\ twos = -1 /\ fives = -1 /\ hadDecimalPoint

(* C19: Accumulate returns at the first character that no part of the       *)
(* grammar matches and not before; NextChar has then been called once for   *)
(* each character matched (the first character is an argument, so while the *)
(* call runs one call is still to come), and it is not called again.        *)
C19_OneCallPerCharacter ==
    /\ [](pc # "idle" =>
            /\ pc = "done" <=> text.part = "end"
            /\ calls = IF pc = "done" THEN text.matched ELSE text.matched - 1)
    /\ [][text.part = "end" => calls' = calls]_vars

\* "-1e+2" and a character that ends it: five characters matched, five calls
C19_Witness ==
    /\ Accepted /\ text.matched = 5 /\ calls = 5 /\ text.pad = 0 /\ text.minus
    /\ text.sig = <<1>> /\ text.exp = <<2>> /\ ~text.expMinus /\ ~text.point

(* C20: in SafeStrtod's loop over the digits after the point,               *)
(* valueAfterPoint never passes ULONG_MAX; a digit that fits gives          *)
(* valueAfterPoint * 10 + digit and one more in digitsAfterPoint; the first *)
(* digit that does not fit adds 1 to valueAfterPoint iff it is 5 or more    *)
(* and valueAfterPoint is not ULONG_MAX, and leaves digitsAfterPoint; every *)
(* digit after it changes neither; s moves past each digit.                 *)
C20_FractionLoop ==
    /\ [](sd.pc # "idle" => (~sd.wrapped /\ BigLeq(sd.valueAfterPoint, sd.max)))
    /\ [][ (sd.pc = "frac" /\ isdigit(sd.cur))
            => LET d == sd.cur - 48
                   v == sd.valueAfterPoint
                   fitted == BigLeq(DigitsToBig(sd.frac), sd.max)
                   exact == BigMulAdd(v, 10, d)
               IN  /\ sd'.pc = "frac" /\ sd'.pos = sd.pos + 1
                   /\ IF fitted /\ BigLeq(exact, sd.max)
                      THEN /\ sd'.valueAfterPoint = exact
                           /\ sd'.digitsAfterPoint = sd.digitsAfterPoint + 1
                      ELSE IF fitted
                      THEN /\ sd'.valueAfterPoint =
                                 IF d >= 5 /\ v # sd.max THEN BigMulAdd(v, 1, 1) ELSE v
                           /\ sd'.digitsAfterPoint = sd.digitsAfterPoint
                      ELSE /\ sd'.valueAfterPoint = v
                           /\ sd'.digitsAfterPoint = sd.digitsAfterPoint
          ]_vars

\* ".42949672969" with 32 bits: 429496729 + 1 kept, nine digits counted, the
\* last digit passed over
C20_Witness ==
    /\ sd.pc = "frac" /\ sd.max = UINT32_MAX /\ sd.overflowed
    /\ sd.frac = <<4,2,9,4,9,6,7,2,9,6,9>> /\ sd.digitsAfterPoint = 9
    /\ sd.valueAfterPoint = BigMulAdd(DigitsToBig(<<4,2,9,4,9,6,7,2,9>>), 1, 1)
    /\ sd.pos = 12

(* C11, as claimed: GetInt32, called in any state a successful Accumulate    *)
(* leaves, performs no signed 32-bit overflow: the negation it evaluates is *)
(* representable.                                                           *)
C11_NegationRepresentable_Claimed == int32.called => ~int32.overflow

=============================================================================
